---- MODULE Spec2Model ----
(***************************************************************************)
(* BasicWebServer: an HTTP/1.1 request/response exchange on a raw TCP      *)
(* socket (net.Server), with a method+path route table.                    *)
(*                                                                         *)
(* The model follows the route-table revision of the server                *)
(* (src/unnamed/part_002, compiled as the first program of                 *)
(* src/dist/server.js).  JavaScript strings are TLA+ strings (sequences of *)
(* UTF-16 code units); a JavaScript value that may be undefined is a       *)
(* record [type, str] holding its type and its string rendering.           *)
(*                                                                         *)
(* Spec is the server: registrations, then connections and their events.   *)
(* RequestSpec follows one request from the parts it is written from       *)
(* through parseRequest and then parseBody or handleRequest.               *)
(***************************************************************************)
EXTENDS Integers, Sequences, FiniteSets, TLC

VARIABLES
    phase,      \* "startup" while the module body registers routes, then "listening"
    routes,     \* this.routes: own keys (upper-cased methods) -> own keys (paths) -> handler
    registered, \* (upper-cased method, path) -> the handler of the last registerRoute call for it
    alive,      \* FALSE once an exception has escaped an event callback (process exit)
    conn,       \* per connection: the socket and what the program did with it
    unit        \* one request followed from its parts through the decoder and the router

vars == <<phase, routes, registered, alive, conn, unit>>

----------------------------------------------------------------------------
(* Bounds of the model.                                                    *)

NumConns == 2
MaxEvents == 2

Conns == 1..NumConns

----------------------------------------------------------------------------
(* JavaScript values and strings.                                          *)

undefined == [type |-> "undefined", str |-> "undefined"]
JSStr(s)  == [type |-> "string", str |-> s]
JSNum(n)  == [type |-> "number", str |-> ToString(n)]

\* `${v}` inside a template literal
TemplateLiteral(v) == v.str

\* obj[v]: a property key is the string rendering of the value
ToPropertyKey(v) == v.str

CharAt(s, i) == SubSeq(s, i, i)

Lowers == "abcdefghijklmnopqrstuvwxyz"
Uppers == "ABCDEFGHIJKLMNOPQRSTUVWXYZ"

RECURSIVE IndexIn(_, _, _)
\* position of the one-character string ch in s at or after i, 0 when absent
IndexIn(s, ch, i) ==
    IF i > Len(s) THEN 0
    ELSE IF CharAt(s, i) = ch THEN i
    ELSE IndexIn(s, ch, i + 1)

UpperChar(ch) ==
    LET i == IndexIn(Lowers, ch, 1) IN IF i = 0 THEN ch ELSE CharAt(Uppers, i)

LowerChar(ch) ==
    LET i == IndexIn(Uppers, ch, 1) IN IF i = 0 THEN ch ELSE CharAt(Lowers, i)

RECURSIVE ToUpperCase(_)
\* String.prototype.toUpperCase
ToUpperCase(s) ==
    IF s = "" THEN "" ELSE UpperChar(Head(s)) \o ToUpperCase(Tail(s))

RECURSIVE ToLowerCase(_)
\* the lower-cased string, to compare two methods ignoring letter case
ToLowerCase(s) ==
    IF s = "" THEN "" ELSE LowerChar(Head(s)) \o ToLowerCase(Tail(s))

RECURSIVE IndexOf(_, _, _)
\* String.prototype.indexOf(sep, from), 1-based; 0 when sep does not occur
IndexOf(s, sep, from) ==
    IF from + Len(sep) - 1 > Len(s) THEN 0
    ELSE IF SubSeq(s, from, from + Len(sep) - 1) = sep THEN from
    ELSE IndexOf(s, sep, from + 1)

RECURSIVE Split(_, _)
\* String.prototype.split(sep) for a non-empty sep: every piece, in order
Split(s, sep) ==
    LET i == IndexOf(s, sep, 1) IN
    IF i = 0 THEN <<s>>
    ELSE <<SubSeq(s, 1, i - 1)>> \o Split(SubSeq(s, i + Len(sep), Len(s)), sep)

\* const [a, b] = pieces: a missing element is undefined
Element(pieces, i) == IF i <= Len(pieces) THEN JSStr(pieces[i]) ELSE undefined

\* TLC keeps only 7-bit characters in the strings of a state, so the model
\* writes two characters outside ASCII with characters no input uses otherwise:
\* "^" is U+00E9 (2 bytes in UTF-8) and "~" is U+20AC (3 bytes in UTF-8).
\* Each is one UTF-16 code unit, as one character here.
EAcute == "^"
Euro   == "~"

Utf8Width(ch) ==
    IF ch = EAcute THEN 2 ELSE IF ch = Euro THEN 3 ELSE 1

RECURSIVE ByteLength(_)
\* Buffer.byteLength(s) for a string s (UTF-8)
ByteLength(s) ==
    IF s = "" THEN 0 ELSE Utf8Width(Head(s)) + ByteLength(Tail(s))

CRLF == "\r\n"
BlankLine == "\r\n\r\n"

----------------------------------------------------------------------------
(* Request Decoder.                                                        *)

RECURSIVE HeaderEntriesSkipMalformed(_, _, _)
\* the loop passing over a line that has no ": "
HeaderEntriesSkipMalformed(headerLines, i, headers) ==
    IF i > Len(headerLines) THEN headers
    ELSE
        LET kv    == Split(headerLines[i], ": ")
            key   == kv[1]
            value == Element(kv, 2)
            next  == IF key = "__proto__" \/ Len(kv) < 2 THEN headers
                     ELSE [k \in DOMAIN headers \cup {key} |->
                              IF k = key THEN value ELSE headers[k]]
        IN HeaderEntriesSkipMalformed(headerLines, i + 1, next)

RECURSIVE HeaderEntries(_, _, _)
\* the loop over headerLines[1..]: headers[key] = value, a later line with the
\* same key overwriting an earlier one.  headers is a plain object, so an
\* assignment to the key "__proto__" of a string or undefined stores nothing.
HeaderEntries(headerLines, i, headers) ==
    IF i > Len(headerLines) THEN headers
    ELSE
        LET kv    == Split(headerLines[i], ": ")
            key   == kv[1]
            value == Element(kv, 2)
            next  == IF key = "__proto__" THEN headers
                     ELSE [k \in DOMAIN headers \cup {key} |->
                              IF k = key THEN value ELSE headers[k]]
        IN HeaderEntries(headerLines, i + 1, next)

EmptyObject == [k \in {} |-> undefined]

\* parseRequest without the "" that stands in for a missing body part
parseRequestNoDefault(request) ==
    LET parts       == Split(request, BlankLine)
        headerPart  == parts[1]
        bodyPart    == Element(parts, 2)
        headerLines == Split(headerPart, CRLF)
        requestLine == Split(headerLines[1], " ")
    IN [ method  |-> requestLine[1],
         path    |-> Element(requestLine, 2),
         headers |-> HeaderEntries(headerLines, 2, EmptyObject),
         body    |-> TemplateLiteral(bodyPart) ]

\* parseRequest upper-casing the method it returns
parseRequestUpperCasing(request) ==
    LET parts       == Split(request, BlankLine)
        headerPart  == parts[1]
        bodyPart    == Element(parts, 2)
        headerLines == Split(headerPart, CRLF)
        requestLine == Split(headerLines[1], " ")
    IN [ method  |-> ToUpperCase(requestLine[1]),
         path    |-> Element(requestLine, 2),
         headers |-> HeaderEntries(headerLines, 2, EmptyObject),
         body    |-> IF bodyPart.type = "undefined" THEN "" ELSE bodyPart.str ]

parseRequest(request) ==
    LET parts       == Split(request, BlankLine)
        headerPart  == parts[1]
        bodyPart    == Element(parts, 2)
        headerLines == Split(headerPart, CRLF)
        requestLine == Split(headerLines[1], " ")
    IN [ method  |-> requestLine[1],
         path    |-> Element(requestLine, 2),
         headers |-> HeaderEntries(headerLines, 2, EmptyObject),
         body    |-> IF bodyPart.type = "undefined" THEN "" ELSE bodyPart.str ]

----------------------------------------------------------------------------
(* Body decoder: new URLSearchParams(body) parses the body as              *)
(* application/x-www-form-urlencoded, and parseBody copies its entries     *)
(* into a plain object.  An object whose property order matters is a       *)
(* sequence of [key, value] entries in property order.                     *)

\* the characters of the bytes 0x20 to 0x5D and 0x61 to 0x7D, in order
Bytes20To5D ==
    " !\"#$%&'()*+,-./0123456789:;<=>?@ABCDEFGHIJKLMNOPQRSTUVWXYZ[\\]"
Bytes61To7D == "abcdefghijklmnopqrstuvwxyz{|}"

HexDigits == "0123456789ABCDEF"

\* the value of a hexadecimal digit of either case; -1 for any other character
HexValue(ch) == IndexIn(HexDigits, UpperChar(ch), 1) - 1

\* the character a percent-decoded byte stands for.  The inputs escape only
\* bytes that are a character of their own in UTF-8 and that a string of the
\* model can hold; for any other byte the model defines no character.
ByteChar(byte) ==
    CASE byte \in 32..93  -> CharAt(Bytes20To5D, byte - 31)
      [] byte = 95        -> "_"
      [] byte \in 97..125 -> CharAt(Bytes61To7D, byte - 96)

RECURSIVE PercentDecode(_)
\* percent-decoding: "%" and two hexadecimal digits give a byte; a "%" not
\* followed by two hexadecimal digits stays as it is
PercentDecode(s) ==
    IF s = "" THEN ""
    ELSE IF /\ Head(s) = "%" /\ Len(s) >= 3
            /\ HexValue(CharAt(s, 2)) >= 0 /\ HexValue(CharAt(s, 3)) >= 0
         THEN ByteChar(16 * HexValue(CharAt(s, 2)) + HexValue(CharAt(s, 3)))
                \o PercentDecode(SubSeq(s, 4, Len(s)))
         ELSE Head(s) \o PercentDecode(Tail(s))

RECURSIVE PlusToSpace(_)
\* every "+" replaced by a space
PlusToSpace(s) ==
    IF s = "" THEN ""
    ELSE (IF Head(s) = "+" THEN " " ELSE Head(s)) \o PlusToSpace(Tail(s))

RECURSIVE FormEntries(_, _)
\* the name-value tuples of the pieces from the i-th on: an empty piece gives
\* none; a piece is cut at its first "=", or is all name with the value ""
FormEntries(pieces, i) ==
    IF i > Len(pieces) THEN <<>>
    ELSE
        LET piece == pieces[i]
            cut   == IndexOf(piece, "=", 1)
            name  == IF cut = 0 THEN piece ELSE SubSeq(piece, 1, cut - 1)
            value == IF cut = 0 THEN "" ELSE SubSeq(piece, cut + 1, Len(piece))
            entry == [key   |-> PercentDecode(PlusToSpace(name)),
                      value |-> PercentDecode(PlusToSpace(value))]
        IN (IF piece = "" THEN <<>> ELSE <<entry>>) \o FormEntries(pieces, i + 1)

\* new URLSearchParams(init) for a string: one leading "?" is dropped
URLSearchParams(init) ==
    LET query == IF init # "" /\ Head(init) = "?" THEN Tail(init) ELSE init
    IN FormEntries(Split(query, "&"), 1)

Digits == "0123456789"

RECURSIVE ToNumber(_, _)
\* the number a string of digits writes, after the digits read so far
ToNumber(s, sofar) ==
    IF s = "" THEN sofar
    ELSE ToNumber(Tail(s), 10 * sofar + IndexIn(Digits, Head(s), 1) - 1)

RECURSIVE AllDigits(_)
AllDigits(s) == s = "" \/ (IndexIn(Digits, Head(s), 1) > 0 /\ AllDigits(Tail(s)))

\* a property key that is an array index (the keys of the inputs are short)
IsArrayIndex(key) ==
    key # "" /\ AllDigits(key) /\ (key = "0" \/ Head(key) # "0")

\* whether a new property `key` comes before the existing property `other`
\* in property order: array indices first, ascending, then strings as created
ComesBefore(key, other) ==
    /\ IsArrayIndex(key)
    /\ IsArrayIndex(other) => ToNumber(key, 0) < ToNumber(other, 0)

\* obj[key] = value for a plain object and a string value: an own property
\* keeps its place, a new one takes its place in property order, and the key
\* "__proto__" reaches the setter of Object.prototype, which ignores a string
SetProperty(obj, key, value) ==
    IF key = "__proto__" THEN obj
    ELSE IF \E i \in 1..Len(obj) : obj[i].key = key
    THEN [i \in 1..Len(obj) |->
             IF obj[i].key = key THEN [key |-> key, value |-> value] ELSE obj[i]]
    ELSE LET before == {i \in 1..Len(obj) : ~ComesBefore(key, obj[i].key)}
             n      == Cardinality({i \in before : \A j \in 1..i : j \in before})
         IN SubSeq(obj, 1, n) \o <<[key |-> key, value |-> value]>>
              \o SubSeq(obj, n + 1, Len(obj))

RECURSIVE CopyEntries(_, _, _)
\* for (const [key, value] of params) parsedBody[key] = value
CopyEntries(params, i, parsedBody) ==
    IF i > Len(params) THEN parsedBody
    ELSE CopyEntries(params, i + 1,
                     SetProperty(parsedBody, params[i].key, params[i].value))

RECURSIVE CopyNewEntries(_, _, _)
\* the loop assigning only a key that parsedBody does not hold yet
CopyNewEntries(params, i, parsedBody) ==
    IF i > Len(params) THEN parsedBody
    ELSE CopyNewEntries(params, i + 1,
             IF \E j \in 1..Len(parsedBody) : parsedBody[j].key = params[i].key
             THEN parsedBody
             ELSE SetProperty(parsedBody, params[i].key, params[i].value))

\* parseBody keeping the first value of a repeated key
parseBodyFirstWins(body) == CopyNewEntries(URLSearchParams(body), 1, <<>>)

parseBody(body) == CopyEntries(URLSearchParams(body), 1, <<>>)

RECURSIVE QuoteJSONString(_)
\* the characters of a JSON string literal (of the control characters the
\* inputs hold only line breaks)
QuoteJSONString(s) ==
    IF s = "" THEN ""
    ELSE (CASE Head(s) = "\"" -> "\\\""
            [] Head(s) = "\\" -> "\\\\"
            [] Head(s) = "\r" -> "\\r"
            [] Head(s) = "\n" -> "\\n"
            [] OTHER -> Head(s)) \o QuoteJSONString(Tail(s))

RECURSIVE JSONMembers(_, _)
JSONMembers(obj, i) ==
    IF i > Len(obj) THEN ""
    ELSE (IF i > 1 THEN "," ELSE "")
           \o "\"" \o QuoteJSONString(obj[i].key) \o "\":\""
           \o QuoteJSONString(obj[i].value) \o "\""
           \o JSONMembers(obj, i + 1)

\* JSON.stringify(obj) of a plain object with string values
JSONStringify(obj) == "{" \o JSONMembers(obj, 1) \o "}"

----------------------------------------------------------------------------
(* Handlers.  A handler is a function value passed to registerRoute; the   *)
(* model names the functions it draws from.  "home" (GET "/") and "submit" *)
(* (POST "/submit") are the program's own; "created" (status 201, the      *)
(* request body sent back) and "failing" (throws) stand for other          *)
(* functions a caller may register.                                        *)

Response(statusCode, contentType, body) ==
    [statusCode |-> statusCode, contentType |-> contentType, body |-> body]

Returns(response) == [threw |-> FALSE, response |-> response]
Throws == [threw |-> TRUE, response |-> Response(undefined, undefined, undefined)]

Handlers == {"home", "created", "failing"}

CallHandler(h, request) ==
    CASE h = "home" ->
           Returns(Response(JSNum(200), JSStr("text/plain"),
                            JSStr("Welcome to the home page!")))
      [] h = "created" ->
           Returns(Response(JSNum(201), JSStr("text/plain"), JSStr(request.body)))
      [] h = "failing" -> Throws
      [] h = "submit" ->
           LET parsedBody == parseBody(request.body) IN
           Returns(Response(JSNum(200), JSStr("text/plain"),
                            JSStr("Received your submission: "
                                    \o JSONStringify(parsedBody))))

\* Properties every plain object ({}) inherits from Object.prototype (a
\* representative subset), under the names the model gives the values.
ObjectPrototypeKeys ==
    {"constructor", "toString", "valueOf", "hasOwnProperty", "__proto__"}

\* obj[key] of a plain object with own properties `own`
GetProperty(own, key) ==
    IF key \in DOMAIN own THEN [from |-> "own", name |-> key]
    ELSE IF key \in ObjectPrototypeKeys THEN [from |-> "Object.prototype", name |-> key]
    ELSE [from |-> "none", name |-> key]

\* value(request) for a value found on Object.prototype, called with no receiver:
\* Object(request) is the request itself, whose statusCode and contentType are
\* undefined and whose body is the request body; toString returns a string
\* primitive, which has none of the three fields; every other one throws a
\* TypeError (no receiver, or not callable).
CallInherited(name, request) ==
    CASE name = "constructor" ->
           Returns(Response(undefined, undefined, JSStr(request.body)))
      [] name = "toString" ->
           Returns(Response(undefined, undefined, undefined))
      [] OTHER -> Throws

----------------------------------------------------------------------------
(* Route Table.                                                            *)

\* registerRoute without the toUpperCase call
registerRouteKeepCase(table, method, path, handler) ==
    LET methodRoutes == IF GetProperty(table, method).from = "own"
                        THEN table[method]
                        ELSE EmptyObject
        updated      == [p \in DOMAIN methodRoutes \cup {path} |->
                            IF p = path THEN handler ELSE methodRoutes[p]]
    IN [m \in DOMAIN table \cup {method} |->
           IF m = method THEN updated ELSE table[m]]

\* registerRoute without the test for an existing table of the method
registerRouteFreshTable(table, method, path, handler) ==
    LET upperMethod == ToUpperCase(method)
    IN [m \in DOMAIN table \cup {upperMethod} |->
           IF m = upperMethod THEN [p \in {path} |-> handler] ELSE table[m]]

registerRoute(table, method, path, handler) ==
    LET upperMethod  == ToUpperCase(method)
        \* no key of Object.prototype is its own upper-casing, so
        \* this.routes[upperMethod] is an own property or undefined
        methodRoutes == IF GetProperty(table, upperMethod).from = "own"
                        THEN table[upperMethod]
                        ELSE EmptyObject
        updated      == [p \in DOMAIN methodRoutes \cup {path} |->
                            IF p = path THEN handler ELSE methodRoutes[p]]
    IN [m \in DOMAIN table \cup {upperMethod} |->
           IF m = upperMethod THEN updated ELSE table[m]]

\* whether a handler is registered under (upper-cased method, path)
HasRoute(table, method, path) ==
    method \in DOMAIN table /\ path \in DOMAIN table[method]

----------------------------------------------------------------------------
(* Response Encoder.                                                       *)

\* sendResponse with the body's length in characters as Content-Length
RawResponseCharLength(response) ==
    "HTTP/1.1 " \o TemplateLiteral(response.statusCode) \o " "
      \o (IF response.statusCode = JSNum(200) THEN "OK" ELSE "Error") \o CRLF
      \o "Content-Type: " \o TemplateLiteral(response.contentType) \o CRLF
      \o "Content-Length: " \o ToString(Len(response.body.str)) \o BlankLine
      \o response.body.str

\* sendResponse with the reason phrase "OK" for every 2xx status code
RawResponseReasonBySuccess(response) ==
    "HTTP/1.1 " \o TemplateLiteral(response.statusCode) \o " "
      \o (IF SubSeq(response.statusCode.str, 1, 1) = "2" THEN "OK" ELSE "Error") \o CRLF
      \o "Content-Type: " \o TemplateLiteral(response.contentType) \o CRLF
      \o "Content-Length: " \o ToString(ByteLength(response.body.str)) \o BlankLine
      \o response.body.str

\* sendResponse with one line break, not a blank line, before the body
RawResponseSingleBreak(response) ==
    "HTTP/1.1 " \o TemplateLiteral(response.statusCode) \o " "
      \o (IF response.statusCode = JSNum(200) THEN "OK" ELSE "Error") \o CRLF
      \o "Content-Type: " \o TemplateLiteral(response.contentType) \o CRLF
      \o "Content-Length: " \o ToString(ByteLength(response.body.str)) \o CRLF
      \o response.body.str

\* the string sendResponse builds; Buffer.byteLength throws a TypeError when
\* response.body is not a string
RawResponse(response) ==
    "HTTP/1.1 " \o TemplateLiteral(response.statusCode) \o " "
      \o (IF response.statusCode = JSNum(200) THEN "OK" ELSE "Error") \o CRLF
      \o "Content-Type: " \o TemplateLiteral(response.contentType) \o CRLF
      \o "Content-Length: " \o ToString(ByteLength(response.body.str)) \o BlankLine
      \o response.body.str

sendResponse(response) ==
    IF response.body.type # "string"
    THEN [threw |-> TRUE, raw |-> ""]
    ELSE [threw |-> FALSE, raw |-> RawResponse(response)]

NotFound == Response(JSNum(404), JSStr("text/plain"), JSStr("Not Found"))

----------------------------------------------------------------------------
(* Router.                                                                 *)

\* handleRequest catching a failure of the handler and answering with the
\* default response
handleRequestCatching(table, request) ==
    LET upperMethod  == ToUpperCase(request.method)
        methodRoutes == GetProperty(table, upperMethod)
        pathKey      == ToPropertyKey(request.path)
        handler      == IF methodRoutes.from = "own"
                        THEN GetProperty(table[upperMethod], pathKey)
                        ELSE [from |-> "none", name |-> pathKey]
        called       == CASE handler.from = "own" ->
                               CallHandler(table[upperMethod][pathKey], request)
                          [] handler.from = "Object.prototype" ->
                               CallInherited(handler.name, request)
                          [] OTHER -> Returns(NotFound)
        caught       == IF called.threw THEN Returns(NotFound) ELSE called
        sent         == sendResponse(caught.response)
    IN [ from     |-> handler.from,
         handler  |-> CASE handler.from = "own" -> table[upperMethod][pathKey]
                        [] handler.from = "Object.prototype" -> handler.name
                        [] OTHER -> "",
         response |-> caught.response,
         threw    |-> sent.threw,
         raw      |-> sent.raw ]

\* What handleRequest does with a decoded request: the function it invokes as
\* handler ("none" when it takes the default path), the response it hands to
\* sendResponse, and whether an exception escapes before socket.write.
handleRequest(table, request) ==
    LET upperMethod  == ToUpperCase(request.method)
        methodRoutes == GetProperty(table, upperMethod)
        pathKey      == ToPropertyKey(request.path)
        handler      == IF methodRoutes.from = "own"
                        THEN GetProperty(table[upperMethod], pathKey)
                        ELSE [from |-> "none", name |-> pathKey]
        called       == CASE handler.from = "own" ->
                               CallHandler(table[upperMethod][pathKey], request)
                          [] handler.from = "Object.prototype" ->
                               CallInherited(handler.name, request)
                          [] OTHER -> Returns(NotFound)
        sent         == sendResponse(called.response)
    IN [ from     |-> handler.from,
         handler  |-> CASE handler.from = "own" -> table[upperMethod][pathKey]
                        [] handler.from = "Object.prototype" -> handler.name
                        [] OTHER -> "",
         response |-> called.response,
         threw    |-> called.threw \/ sent.threw,
         raw      |-> IF called.threw THEN "" ELSE sent.raw ]

\* handleRequest creating the table of a method it does not find
RoutesAfterDispatchCreating(table, request) ==
    LET upperMethod == ToUpperCase(request.method)
    IN [m \in DOMAIN table \cup {upperMethod} |->
           IF m \in DOMAIN table THEN table[m] ELSE EmptyObject]

\* handleRequest deleting the route it has served
RoutesAfterDispatchConsuming(table, request) ==
    LET upperMethod == ToUpperCase(request.method)
        pathKey     == ToPropertyKey(request.path)
    IN [m \in DOMAIN table |->
           IF m = upperMethod
           THEN [p \in DOMAIN table[m] \ {pathKey} |-> table[m][p]]
           ELSE table[m]]

\* this.routes after handleRequest has run: handleRequest only reads it
RoutesAfterDispatch(table, request) == table

----------------------------------------------------------------------------
(* Inputs.                                                                 *)

RegMethods == {"GET", "get"}
RegPaths   == {"/", "/echo"}

\* what a client may deliver in one data event
Buffers ==
    { "GET / HTTP/1.1\r\nHost: x\r\n\r\n",
      "GET / HTTP/1.1\r\nContent-Length: 3\r\n\r\nq",
      "get /echo HTTP/1.1\r\n\r\n" \o EAcute \o Euro,
      "GET /echo/ HTTP/1.1\r\n\r\n",
      "PUT / HTTP/1.1\r\n\r\n",
      "GET constructor HTTP/1.1\r\n\r\nhi",
      "GET toString HTTP/1.1\r\n\r\n" }

----------------------------------------------------------------------------
(* State.                                                                  *)

NoDispatch ==
    [ from |-> "none", handler |-> "",
      response |-> Response(undefined, undefined, undefined),
      threw |-> FALSE, raw |-> "" ]

NoRequest == [method |-> "", path |-> undefined, headers |-> EmptyObject, body |-> ""]

FreshConnection ==
    [ accepted  |-> FALSE,     \* the "connection" event has fired
      finished  |-> FALSE,     \* the "end" event has fired (the peer closed its side)
      destroyed |-> FALSE,     \* the runtime destroyed the socket after a refused write
      ended     |-> FALSE,     \* the program has called socket.end()
      failed    |-> FALSE,     \* the "error" event has fired
      calls     |-> <<>>,      \* the program's socket.write/socket.end calls
      wire      |-> <<>>,      \* the strings the socket accepted for sending
      handled   |-> 0,         \* data events decoded and dispatched
      before    |-> "NONE",    \* the session state the latest data event found
      request   |-> NoRequest, \* the latest decoded request
      last      |-> NoDispatch \* what handleRequest did with it
    ]

\* The state of the connection session (spec section 4.6) a socket is in
\* between events.
Session(c) ==
    IF ~c.accepted THEN "NONE"
    ELSE IF c.ended \/ c.failed \/ c.finished \/ c.destroyed THEN "CLOSED"
    ELSE "AWAITING_DATA"

\* "data" events may still fire on the socket
Readable(c) == c.accepted /\ ~c.failed /\ ~c.finished /\ ~c.destroyed

RECURSIVE EventsUpTo(_)
\* data, error and end events delivered so far on connections 1..n
EventsUpTo(n) ==
    IF n = 0 THEN 0
    ELSE conn[n].handled
           + (IF conn[n].failed THEN 1 ELSE 0)
           + (IF conn[n].finished THEN 1 ELSE 0)
           + EventsUpTo(n - 1)

Events == EventsUpTo(NumConns)

\* parseRequest of every buffer a client may deliver
Decoded == [d \in Buffers |-> parseRequest(d)]

\* no request is being followed
NoUnit ==
    [ stage   |-> "idle",
      method  |-> "", path |-> undefined, version |-> "",
      lines   |-> <<>>, tail |-> undefined,
      raw     |-> "",          \* the buffer built from the parts
      request |-> NoRequest,   \* parseRequest(raw)
      parsed  |-> <<>>,        \* parseBody(request.body)
      result  |-> NoDispatch   \* what handleRequest did with the request
    ]

Init ==
    /\ phase = "startup"
    /\ routes = [m \in {} |-> EmptyObject]
    /\ registered = [k \in {} |-> ""]
    /\ alive = TRUE
    /\ conn = [c \in Conns |-> FreshConnection]
    /\ unit = NoUnit

\* server.registerRoute(method, path, handler) in the module body, any number
\* of times
RegisterRoute(method, path, handler) ==
    /\ phase = "startup"
    /\ routes' = registerRoute(routes, method, path, handler)
    /\ registered' =
          LET key == <<ToUpperCase(method), path>> IN
          [k \in DOMAIN registered \cup {key} |->
              IF k = key THEN handler ELSE registered[k]]
    /\ UNCHANGED <<phase, alive, conn, unit>>

\* server.listen(3000)
Listen ==
    /\ phase = "startup"
    /\ phase' = "listening"
    /\ UNCHANGED <<routes, registered, alive, conn, unit>>

\* server.on("connection"): the three listeners are attached.  Connections
\* are numbered in the order the server accepts them.
Connection(c) ==
    /\ phase = "listening" /\ alive
    /\ ~conn[c].accepted
    /\ \A earlier \in 1..(c - 1) : conn[earlier].accepted
    /\ conn' = [conn EXCEPT ![c].accepted = TRUE]
    /\ UNCHANGED <<phase, routes, registered, alive, unit>>

\* socket.write(raw) then socket.end().  A write on a socket whose writable
\* side has ended is refused (write after end): nothing is sent, and the
\* stream reports the error, which destroys the socket or not depending on
\* the runtime version.
WriteAndEnd(c, raw, destroys) ==
    [ c EXCEPT
        !.calls    = c.calls \o <<"write", "end">>,
        !.wire      = IF c.ended THEN c.wire ELSE Append(c.wire, raw),
        !.ended     = TRUE,
        !.destroyed = c.ended /\ destroys ]

\* socket.on("data"): parseRequest, handleRequest, sendResponse.  An exception
\* that escapes the listener is uncaught and ends the process.
Data(c, data, destroys) ==
    /\ phase = "listening" /\ alive
    /\ Readable(conn[c])
    /\ Events < MaxEvents
    /\ destroys \in (IF conn[c].ended THEN BOOLEAN ELSE {FALSE})
    /\ LET request == Decoded[data]
           result  == handleRequest(routes, request)
           seen    == [conn[c] EXCEPT !.handled = @ + 1,
                                      !.before  = Session(conn[c]),
                                      !.request = request,
                                      !.last    = result]
       IN IF result.threw
          THEN /\ alive' = FALSE
               /\ conn' = [conn EXCEPT ![c] = seen]
          ELSE /\ alive' = alive
               /\ conn' = [conn EXCEPT ![c] = WriteAndEnd(seen, result.raw, destroys)]
    /\ routes' = RoutesAfterDispatch(routes, Decoded[data])
    /\ UNCHANGED <<phase, registered, unit>>

\* an "error" listener that answers the peer before the socket goes
ErrorAnswering(c) ==
    /\ phase = "listening" /\ alive
    /\ conn[c].accepted /\ ~conn[c].failed /\ ~conn[c].destroyed
    /\ Events < MaxEvents
    /\ conn' = [conn EXCEPT ![c] =
                  WriteAndEnd([conn[c] EXCEPT !.failed = TRUE],
                              RawResponse(Response(JSNum(500), JSStr("text/plain"),
                                                   JSStr("Error"))),
                              FALSE)]
    /\ UNCHANGED <<phase, routes, registered, alive, unit>>

\* socket.on("error"): the error is logged; the runtime destroys the socket
Error(c) ==
    /\ phase = "listening" /\ alive
    /\ conn[c].accepted /\ ~conn[c].failed /\ ~conn[c].destroyed
    /\ Events < MaxEvents
    /\ conn' = [conn EXCEPT ![c].failed = TRUE]
    /\ UNCHANGED <<phase, routes, registered, alive, unit>>

\* socket.on("end"): the peer has closed its side; this is logged
End(c) ==
    /\ phase = "listening" /\ alive
    /\ Readable(conn[c])
    /\ Events < MaxEvents
    /\ conn' = [conn EXCEPT ![c].finished = TRUE]
    /\ UNCHANGED <<phase, routes, registered, alive, unit>>

Next ==
    \/ \E m \in RegMethods, p \in RegPaths, h \in Handlers : RegisterRoute(m, p, h)
    \/ Listen
    \/ \E c \in Conns : Connection(c)
    \/ \E c \in Conns, d \in Buffers, x \in BOOLEAN : Data(c, d, x)
    \/ \E c \in Conns : Error(c)
    \/ \E c \in Conns : End(c)

Spec == Init /\ [][Next]_vars

----------------------------------------------------------------------------
(* One request, followed from the parts a client writes it from: the       *)
(* request line, the head lines after it, and either the blank line and    *)
(* the body or nothing.  The parts are joined as in the request examples   *)
(* of the source; parseRequest decodes the buffer.                         *)

MaxHeaderLines == 2

UnitMethods == {"GET", "post"}
UnitPaths   == {"/", "/submit"}

\* head lines a client may send after the request line
HeaderLines == {"Host: x", "host: y", "A: b: c", "Host", "__proto__: p"}

\* what follows the head: nothing (undefined), or the blank line and a body
Tails == {undefined, JSStr(""), JSStr("hi"), JSStr("a\r\n\r\nb")}

\* form data a client may send as the body
FormBodies ==
    { "name=FirstName%20LastName&email=bsmth%40example.com",
      "a=1&b=x+y%21&a=3",
      "a=b+c",
      "a=b=c&&d",
      "k%3D=%26%2b",
      "__proto__=x&a=1",
      "?a=1",
      "b=z&10=x&9=y",
      "a=%zz%",
      "q=%22%5C" }

\* request lines a client may send: a method of any letter case or none, a
\* request-target or none after it (undefined: the line is the method alone),
\* and what follows the request-target on the line
LineMethods  == {"GET", "Get", "post", ""}
LineTargets  == {undefined, JSStr(""), JSStr("/"), JSStr("/a%20b"),
                 JSStr("/submit"), JSStr("toString")}
LineVersions == {"", " HTTP/1.1", " HTTP/1.1 x"}

UnitInputs ==
    { [method |-> m, path |-> JSStr(p), version |-> "", lines |-> l, tail |-> t] :
        m \in UnitMethods, p \in UnitPaths,
        l \in UNION {[1..n -> HeaderLines] : n \in 0..MaxHeaderLines},
        t \in Tails }
    \cup
    { [method |-> "POST", path |-> JSStr(p), version |-> "",
       lines |-> <<>>, tail |-> JSStr(b)] :
        p \in {"/submit", "/echo"}, b \in FormBodies }
    \cup
    { i \in { [method |-> m, path |-> p, version |-> v, lines |-> <<>>, tail |-> t] :
                m \in LineMethods, p \in LineTargets, v \in LineVersions,
                t \in {undefined, JSStr("")} } :
        i.path.type = "undefined" => i.version = "" }

\* the registerRoute calls made before the request is dispatched
Served ==
    << [method |-> "GET",  path |-> "/",       handler |-> "home"],
       [method |-> "POST", path |-> "/submit", handler |-> "submit"],
       [method |-> "POST", path |-> "/echo",   handler |-> "created"] >>

RECURSIVE RoutesAfter(_, _)
\* this.routes after the first n of the calls
RoutesAfter(calls, n) ==
    IF n = 0 THEN [m \in {} |-> EmptyObject]
    ELSE registerRoute(RoutesAfter(calls, n - 1),
                       calls[n].method, calls[n].path, calls[n].handler)

RECURSIVE JoinLines(_, _)
\* the head lines from the i-th on, each after a line break
JoinLines(lines, i) ==
    IF i > Len(lines) THEN "" ELSE CRLF \o lines[i] \o JoinLines(lines, i + 1)

\* <method> <request-target> <protocol>, with the parts the client sends
RequestLine(method, path, version) ==
    method \o (IF path.type = "string" THEN " " \o path.str ELSE "") \o version

\* the request line, the head lines, then the blank line and the body
RequestText(requestLine, lines, tail) ==
    requestLine \o JoinLines(lines, 1)
      \o (IF tail.type = "string" THEN BlankLine \o tail.str ELSE "")

RequestInit ==
    /\ phase = "listening"
    /\ routes = RoutesAfter(Served, Len(Served))
    /\ registered =
          [k \in {<<ToUpperCase(Served[n].method), Served[n].path>> : n \in 1..Len(Served)} |->
              LET last == CHOOSE n \in 1..Len(Served) :
                            /\ <<ToUpperCase(Served[n].method), Served[n].path>> = k
                            /\ \A later \in (n + 1)..Len(Served) :
                                  <<ToUpperCase(Served[later].method), Served[later].path>> # k
              IN Served[last].handler]
    /\ alive = TRUE
    /\ conn = [c \in Conns |-> FreshConnection]
    /\ \E i \in UnitInputs :
          unit = [NoUnit EXCEPT !.stage = "parts", !.method = i.method,
                                !.path = i.path, !.version = i.version,
                                !.lines = i.lines, !.tail = i.tail]

\* the client writes the request
Build ==
    /\ unit.stage = "parts"
    /\ unit' = [unit EXCEPT
                  !.stage = "built",
                  !.raw   = RequestText(RequestLine(unit.method, unit.path, unit.version),
                                        unit.lines, unit.tail)]
    /\ UNCHANGED <<phase, routes, registered, alive, conn>>

\* this.parseRequest(data.toString())
Decode ==
    /\ unit.stage = "built"
    /\ unit' = [unit EXCEPT !.stage = "decoded", !.request = parseRequest(unit.raw)]
    /\ UNCHANGED <<phase, routes, registered, alive, conn>>

\* server.parseBody(req.body), as a handler calls it
ParseBody ==
    /\ unit.stage = "decoded"
    /\ unit' = [unit EXCEPT !.stage = "parsed", !.parsed = parseBody(unit.request.body)]
    /\ UNCHANGED <<phase, routes, registered, alive, conn>>

\* this.handleRequest(socket, request)
Handle ==
    /\ unit.stage = "decoded"
    /\ unit' = [unit EXCEPT !.stage = "handled",
                            !.result = handleRequest(routes, unit.request)]
    /\ UNCHANGED <<phase, routes, registered, alive, conn>>

RequestNext == Build \/ Decode \/ ParseBody \/ Handle

RequestSpec == RequestInit /\ [][RequestNext]_vars

----------------------------------------------------------------------------
(* What a client reads off the wire.                                       *)

\* the responses the sockets accepted for sending
Written == UNION {{conn[c].wire[i] : i \in 1..Len(conn[c].wire)} : c \in Conns}

StatusLine(w) == Split(w, CRLF)[1]
WireHead(w)   == SubSeq(w, 1, IndexOf(w, BlankLine, 1) - 1)
WireBody(w)   == SubSeq(w, IndexOf(w, BlankLine, 1) + Len(BlankLine), Len(w))

\* the value of the first header line of w named `name`
HeaderValue(w, name) ==
    LET lines  == Split(WireHead(w), CRLF)
        prefix == name \o ": "
        named  == {i \in 2..Len(lines) : SubSeq(lines[i], 1, Len(prefix)) = prefix}
        first  == CHOOSE i \in named : \A j \in named : i <= j
    IN SubSeq(lines[first], Len(prefix) + 1, Len(lines[first]))

Dispatched(c) == conn[c].handled > 0

\* the decoded request names a pair registerRoute was called for
Matched(request) ==
    /\ request.path.type = "string"
    /\ <<ToUpperCase(request.method), request.path.str>> \in DOMAIN registered

----------------------------------------------------------------------------
(* Claims.                                                                 *)

\* C1: a decoded request whose (upper-cased method, exact path) pair has no
\* registered handler gets exactly the default 404 response, and no function
\* is invoked as its handler.
C1_UnmatchedGetsNotFound ==
    \A c \in Conns :
        (Dispatched(c) /\ ~Matched(conn[c].request)) =>
            /\ conn[c].last.from = "none"
            /\ ~conn[c].last.threw
            /\ conn[c].last.response = NotFound

\* C2: on one connection at most one request is decoded and dispatched and at
\* most one response is written; a later data event is not dispatched.
C2_OneRequestPerConnection ==
    \A c \in Conns : conn[c].handled <= 1 /\ Len(conn[c].wire) <= 1

\* C3: every socket.write of a response is immediately followed by socket.end
\* on the same connection, and the program issues no write on a connection
\* after it has ended it.
C3_WriteThenEndAndNoWriteAfterEnd ==
    \A c \in Conns : \A i \in 1..Len(conn[c].calls) :
        conn[c].calls[i] = "write" =>
            /\ i < Len(conn[c].calls) /\ conn[c].calls[i + 1] = "end"
            /\ \A j \in 1..(i - 1) : conn[c].calls[j] # "end"

\* C4: a session only moves forward; CLOSED is terminal, so a data event is
\* never dispatched for a connection whose session is CLOSED.
C4_ClosedIsTerminal ==
    \A c \in Conns : Dispatched(c) => conn[c].before = "AWAITING_DATA"

\* C5: the Content-Length header of every response written equals the UTF-8
\* byte length of the body that follows the blank line.
C5_ContentLengthIsByteLength ==
    \A w \in Written :
        HeaderValue(w, "Content-Length") = ToString(ByteLength(WireBody(w)))

\* a connection received a body with multi-byte characters and another one
\* an empty body
C5_Witness ==
    /\ \E w \in Written : ByteLength(WireBody(w)) > Len(WireBody(w))
    /\ \E w \in Written : WireBody(w) = ""

\* C6: the status line is "HTTP/1.1 <statusCode> OK" exactly when statusCode
\* is 200 and "HTTP/1.1 <statusCode> Error" for every other status code.
C6_ReasonPhraseIsBinary ==
    /\ \A w \in Written :
          LET token == Split(StatusLine(w), " ") IN
          /\ Len(token) = 3
          /\ token[1] = "HTTP/1.1"
          /\ token[3] = (IF token[2] = "200" THEN "OK" ELSE "Error")
    /\ \A c \in Conns :
          (conn[c].handled = 1 /\ Len(conn[c].wire) = 1) =>
              StatusLine(conn[c].wire[1]) =
                  "HTTP/1.1 " \o conn[c].last.response.statusCode.str \o " "
                    \o (IF conn[c].last.response.statusCode = JSNum(200)
                        THEN "OK" ELSE "Error")

\* responses with status 201 and 404 went out with the reason "Error" and one
\* with status 200 with "OK"
C6_Witness ==
    /\ \E w \in Written : StatusLine(w) = "HTTP/1.1 201 Error"
    /\ \E c \in Conns :
          /\ conn[c].handled = 1 /\ Len(conn[c].wire) = 1
          /\ conn[c].last.response.statusCode \in {JSNum(200), JSNum(404)}

\* C7: a handler registered for (method, path) is the one dispatch invokes
\* for a request whose method equals the registered one ignoring letter case
\* and whose path equals the registered one exactly; a request with any other
\* path does not reach it.
C7_ExactRouteMatch ==
    \A c \in Conns : \A key \in DOMAIN registered :
        LET request == conn[c].request
            sameMethod == ToLowerCase(request.method) = ToLowerCase(key[1])
            samePath   == request.path = JSStr(key[2])
            reached    == conn[c].last.from = "own"
                          /\ conn[c].last.handler = registered[key]
            onlyHere   == \A other \in DOMAIN registered \ {key} :
                              registered[other] # registered[key]
        IN Dispatched(c) =>
            /\ (sameMethod /\ samePath) => reached
            /\ (onlyHere /\ ~samePath) => ~reached

\* a handler registered as "get" served a request sent as "GET" or the other
\* way round, while a request for another path did not reach a handler
C7_Witness ==
    /\ \E c \in Conns :
          /\ Dispatched(c) /\ conn[c].last.from = "own"
          /\ conn[c].request.method = "get"
    /\ \E c \in Conns :
          /\ Dispatched(c) /\ conn[c].last.from = "none"
          /\ conn[c].request.path = JSStr("/echo/")
          /\ <<"GET", "/echo">> \in DOMAIN registered

\* C8: the route table holds, for every (upper-cased method, path) pair, at
\* most one handler, the one of the last registerRoute call for the pair;
\* a call for one pair leaves every other pair's handler as it was.
C8_LastRegistrationWins ==
    /\ \A key \in DOMAIN registered :
          /\ HasRoute(routes, key[1], key[2])
          /\ routes[key[1]][key[2]] = registered[key]
    /\ \A m \in DOMAIN routes : \A p \in DOMAIN routes[m] :
          <<m, p>> \in DOMAIN registered

\* calls have registered two paths of one method, both present
C8_Witness ==
    /\ DOMAIN registered = {<<"GET", "/">>, <<"GET", "/echo">>}
    /\ registered[<<"GET", "/">>] # registered[<<"GET", "/echo">>]

\* C9: once the server listens the route table is read-only: no connection
\* event, decode, dispatch or response write changes it.
C9_RoutesReadOnlyWhileListening ==
    [][phase = "listening" => routes' = routes]_vars

\* matched and unmatched requests have been dispatched against a table
C9_Witness ==
    /\ phase = "listening" /\ DOMAIN routes # {}
    /\ \E c \in Conns : Dispatched(c) /\ conn[c].last.from = "own"
    /\ \E c \in Conns : Dispatched(c) /\ conn[c].request.method = "PUT"

\* C10: a failure on one connection changes neither the route table nor the
\* service of any other in-flight connection: after an event on another
\* connection the process still runs to answer it.
C10_FailuresAreConnectionLocal ==
    [][\A c \in Conns :
          (alive /\ Session(conn[c]) = "AWAITING_DATA" /\ conn'[c] = conn[c])
              => (alive' /\ routes' = routes)]_vars

\* the request of the end-to-end scenario and the connections it was the
\* first request of, with GET "/" registered to the home handler
HomeBuffer == "GET / HTTP/1.1\r\nHost: x\r\n\r\n"

ServedHome(c) ==
    /\ conn[c].handled = 1 /\ conn[c].before = "AWAITING_DATA"
    /\ conn[c].request = Decoded[HomeBuffer]
    /\ <<"GET", "/">> \in DOMAIN registered
    /\ registered[<<"GET", "/">>] = "home"

\* C11 as stated: with GET "/" registered to the home handler, a connection
\* that delivers "GET / HTTP/1.1\r\nHost: x\r\n\r\n" receives exactly the
\* response with status line "HTTP/1.1 200 OK", Content-Type text/plain,
\* Content-Length 26 and the body "Welcome to the home page!".
C11_HomeResponseLength26 ==
    \A c \in Conns :
        ServedHome(c) =>
            conn[c].wire =
                << "HTTP/1.1 200 OK\r\nContent-Type: text/plain\r\n"
                     \o "Content-Length: 26\r\n\r\nWelcome to the home page!" >>

\* C11 amended: the same connection receives exactly that response with
\* Content-Length 25, the byte length of "Welcome to the home page!".
C11_HomeResponseLength25 ==
    \A c \in Conns :
        ServedHome(c) =>
            conn[c].wire =
                << "HTTP/1.1 200 OK\r\nContent-Type: text/plain\r\n"
                     \o "Content-Length: 25\r\n\r\nWelcome to the home page!" >>

\* a connection delivered the scenario's request with the home handler registered
C11_Witness ==
    \E c \in Conns : ServedHome(c) /\ conn[c].ended /\ Len(conn[c].wire) = 1

----------------------------------------------------------------------------
(* The decoder on the request followed.                                    *)

Contains(s, sep) == IndexOf(s, sep, 1) # 0

\* the text of s before and after the first occurrence of sep
Before(s, sep) == SubSeq(s, 1, IndexOf(s, sep, 1) - 1)
After(s, sep)  == SubSeq(s, IndexOf(s, sep, 1) + Len(sep), Len(s))

\* the header name a head line carries
LineName(line) == IF Contains(line, ": ") THEN Before(line, ": ") ELSE line

\* no head line after the i-th carries the name of the i-th
LastOfItsName(lines, i) ==
    \A j \in (i + 1)..Len(lines) : LineName(lines[j]) # LineName(lines[i])

DecodedUnit == unit.stage = "decoded"

\* C12: parseRequest round-trips on well-formed input: a request built from a
\* method, a path, one "<name>: <value>" line per header, the blank line and
\* a body decodes to the same method, path, headers and body.
C12_ParseRequestRoundTrip ==
    ( /\ DecodedUnit /\ unit.tail.type = "string"
      /\ \A i \in 1..Len(unit.lines) :
            Contains(unit.lines[i], ": ") /\ LastOfItsName(unit.lines, i) )
    => /\ unit.request.method = unit.method
       /\ unit.request.path = unit.path
       /\ unit.request.body = unit.tail.str
       /\ DOMAIN unit.request.headers =
              {LineName(unit.lines[i]) : i \in 1..Len(unit.lines)}
       /\ \A i \in 1..Len(unit.lines) :
              unit.request.headers[LineName(unit.lines[i])] =
                  JSStr(After(unit.lines[i], ": "))

\* C15: for a buffer that contains "\r\n\r\n" the decoded body is the whole
\* remainder of the buffer after the first "\r\n\r\n".
C15_BodyIsVerbatimRemainder ==
    (DecodedUnit /\ Contains(unit.raw, BlankLine)) =>
        unit.request.body = After(unit.raw, BlankLine)

\* C16: a head line that contains ": " is recorded under the text before its
\* first ": ", as received, with the whole text after that first ": " as the
\* value (the last line of a name being the one recorded).
C16_HeaderSplitAtFirstSeparator ==
    DecodedUnit =>
        \A i \in 1..Len(unit.lines) :
            (Contains(unit.lines[i], ": ") /\ LastOfItsName(unit.lines, i)) =>
                /\ LineName(unit.lines[i]) \in DOMAIN unit.request.headers
                /\ unit.request.headers[LineName(unit.lines[i])] =
                       JSStr(After(unit.lines[i], ": "))

\* the request built from the parts of the one followed, without its i-th head line
WithoutLine(i) ==
    RequestText(RequestLine(unit.method, unit.path, unit.version),
                SubSeq(unit.lines, 1, i - 1) \o SubSeq(unit.lines, i + 1, Len(unit.lines)),
                unit.tail)

C18_NoDelimiterFallback ==
    (DecodedUnit /\ ~Contains(unit.raw, BlankLine)) =>
        /\ unit.request.body = ""
        /\ unit.request.method = unit.method
        /\ unit.request.path = unit.path
        /\ unit.request.headers = parseRequest(unit.raw \o BlankLine).headers
        /\ \A i \in 1..Len(unit.lines) :
              LineName(unit.lines[i]) \in DOMAIN unit.request.headers \cup {"__proto__"}

\* a buffer of a request line and two head lines, without a blank line, has
\* been decoded
C18_Witness ==
    /\ DecodedUnit
    /\ unit.raw = "GET /\r\nHost: x\r\nhost: y"
    /\ unit.request.headers = [k \in {"Host", "host"} |->
                                  IF k = "Host" THEN JSStr("x") ELSE JSStr("y")]

----------------------------------------------------------------------------
(* The body decoder on the request followed.                               *)

\* the pieces of a form body between "&", and the name and the value of a
\* piece: the text before and after its first "="
FormPieces(body)  == SelectSeq(Split(body, "&"), LAMBDA piece : piece # "")
PieceName(piece)  == IF Contains(piece, "=") THEN Before(piece, "=") ELSE piece
PieceValue(piece) == IF Contains(piece, "=") THEN After(piece, "=") ELSE ""

\* obj holds one entry for each key of the pieces, read by Dec, that is not
\* among `dropped`, with the value, read by Dec, of the key's last piece
HoldsLastValues(obj, pieces, Dec(_), dropped) ==
    LET key(i) == Dec(PieceName(pieces[i]))
        val(i) == Dec(PieceValue(pieces[i]))
        stored == {i \in 1..Len(pieces) : key(i) \notin dropped}
    IN /\ \A m, n \in 1..Len(obj) : obj[m].key = obj[n].key => m = n
       /\ {obj[n].key : n \in 1..Len(obj)} = {key(i) : i \in stored}
       /\ \A i \in stored :
             (\A j \in stored : j > i => key(j) # key(i)) =>
                 \E n \in 1..Len(obj) : obj[n] = [key |-> key(i), value |-> val(i)]

\* Dispatch hands the handler the body as parseRequest decoded it: a handler
\* that does not call parseBody answers from the body as sent, the one that
\* calls it answers from that body decoded once, a value found on
\* Object.prototype yields the body as sent or none, and no other response
\* shows the body.
DispatchDoesNotParseBody ==
    unit.stage = "handled" =>
        LET body == unit.result.response.body IN
        CASE unit.result.handler = "created" -> body = JSStr(unit.request.body)
          [] unit.result.handler = "submit" ->
               body = JSStr("Received your submission: "
                              \o JSONStringify(parseBody(unit.request.body)))
          [] unit.result.handler = "home" -> body = JSStr("Welcome to the home page!")
          [] unit.result.from = "Object.prototype" ->
               body \in {undefined, JSStr(unit.request.body)}
          [] OTHER -> unit.result.response = NotFound

\* C13 as stated: parseBody splits the body on "&" and each pair on "=",
\* percent-decodes key and value and changes no other character, and returns
\* a mapping of each key to the decoded value of its last occurrence;
\* dispatch itself does not invoke it.
C13_ParseBodyPercentDecodesOnly ==
    /\ unit.stage = "parsed" =>
          HoldsLastValues(unit.parsed, FormPieces(unit.request.body), PercentDecode, {})
    /\ DispatchDoesNotParseBody

\* C13 amended: parseBody passes over one leading "?", splits the body on "&"
\* and each non-empty piece at its first "=", replaces every "+" by a space and
\* then percent-decodes key and value, changing no other character, and
\* returns a mapping of each key to the decoded value of its last occurrence,
\* in which a key "__proto__" is not stored; dispatch itself does not invoke it.
C13_ParseBodyFormDecodes ==
    /\ unit.stage = "parsed" =>
          LET body  == unit.request.body
              query == IF body # "" /\ Head(body) = "?" THEN Tail(body) ELSE body
          IN HoldsLastValues(unit.parsed, FormPieces(query),
                             LAMBDA s : PercentDecode(PlusToSpace(s)), {"__proto__"})
    /\ DispatchDoesNotParseBody

\* a body with a repeated key, a "+" and an escape has been decoded
C13_Witness ==
    /\ unit.stage = "parsed"
    /\ unit.request.body = "a=1&b=x+y%21&a=3"
    /\ unit.parsed = <<[key |-> "a", value |-> "3"], [key |-> "b", value |-> "x y!"]>>

\* C14: two dispatches of requests with the same method and path select the
\* same handler (or both none), whatever was dispatched in between and
\* whatever the headers and bodies of the two requests are.
C14_RoutingIsDeterministic ==
    \A c, d \in Conns :
        ( /\ Dispatched(c) /\ Dispatched(d)
          /\ conn[c].request.method = conn[d].request.method
          /\ conn[c].request.path = conn[d].request.path )
        => /\ conn[c].last.from = conn[d].last.from
           /\ conn[c].last.handler = conn[d].last.handler

\* two connections sent the same method and path with different headers and
\* bodies, and both reached a registered handler
C14_Witness ==
    \E c, d \in Conns :
        /\ Dispatched(c) /\ Dispatched(d)
        /\ conn[c].request.method = conn[d].request.method
        /\ conn[c].request.path = conn[d].request.path
        /\ conn[c].request.headers # conn[d].request.headers
        /\ conn[c].request.body # conn[d].request.body
        /\ conn[c].last.from = "own"

\* the handler registered for the request throws
HandlerThrows(c) ==
    /\ c.last.from = "own"
    /\ CallHandler(c.last.handler, c.request).threw

\* C19: when the matched handler throws, the failure leaves handleRequest and
\* the data listener uncaught, and for that data event nothing is written
\* (neither a response of the handler nor the default 404) and socket.end is
\* not called.
C19_HandlerFailurePropagates ==
    [][\A c \in Conns :
          (conn'[c].handled = conn[c].handled + 1 /\ HandlerThrows(conn'[c])) =>
              /\ conn'[c].last.threw
              /\ ~alive'
              /\ conn'[c].calls = conn[c].calls
              /\ conn'[c].wire = conn[c].wire
              /\ conn'[c].ended = conn[c].ended]_vars

\* a request reached a registered handler that throws, on a connection that
\* had not been answered
C19_Witness ==
    \E c \in Conns :
        /\ conn[c].handled = 1 /\ HandlerThrows(conn[c])
        /\ conn[c].last.handler = "failing"
        /\ conn[c].calls = <<>> /\ ~conn[c].ended

\* C20: an error event on a connection, in whatever state its session is,
\* makes the program write nothing and call nothing on the socket, and after
\* it no request of that connection is dispatched and nothing is written to it.
C20_TransportErrorAbandons ==
    [][\A c \in Conns :
          /\ (conn'[c].failed /\ ~conn[c].failed) =>
                 conn'[c] = [conn[c] EXCEPT !.failed = TRUE]
          /\ conn[c].failed =>
                 /\ conn'[c].failed
                 /\ conn'[c].handled = conn[c].handled
                 /\ conn'[c].calls = conn[c].calls
                 /\ conn'[c].wire = conn[c].wire]_vars

\* an error event arrived on a connection that had been answered and ended
C20_Witness ==
    \E c \in Conns :
        /\ conn[c].failed /\ conn[c].ended
        /\ conn[c].handled = 1 /\ conn[c].calls = <<"write", "end">>

\* the first transport read of the request
\* "GET / HTTP/1.1\r\nContent-Length: 3\r\n\r\nq=1", which arrives in two
\* reads: the head announces three bytes of body and the read holds one
FirstRead == "GET / HTTP/1.1\r\nContent-Length: 3\r\n\r\nq"

\* C21: a connection whose request arrives split across several transport
\* reads is never completed by the program: it writes no response for it and
\* never closes it, as for a connection that never sends data.
C21_SplitRequestNeverCompleted ==
    \A c \in Conns :
        (conn[c].handled = 1 /\ conn[c].request = Decoded[FirstRead]) =>
            /\ conn[c].calls = <<>>
            /\ conn[c].wire = <<>>
            /\ ~conn[c].ended

\* C22: parseRequest returns as method and path the first and the second
\* space-separated token of the request line exactly as sent, whatever the
\* letter case of the method and whatever escapes the path holds, and decodes
\* the request as it decodes the one without the tokens that follow the path;
\* the handler is looked up under the upper-cased method, so that a request
\* whose method is in lower case reaches the handler registered for it while
\* the request handed on still holds the method as sent.
C22_RequestLineTokensVerbatim ==
    /\ unit.stage \in {"decoded", "parsed", "handled"} =>
          /\ unit.request.method = unit.method
          /\ unit.request.path = unit.path
          /\ unit.request =
                parseRequest(RequestText(RequestLine(unit.method, unit.path, ""),
                                         unit.lines, unit.tail))
    /\ unit.stage = "handled" =>
          \A n \in 1..Len(Served) :
              ( /\ Served[n].method = ToUpperCase(unit.method)
                /\ JSStr(Served[n].path) = unit.path )
              => /\ unit.result.from = "own"
                 /\ unit.result.handler = Served[n].handler

\* "post /submit HTTP/1.1 x" has been decoded and dispatched to the handler
\* registered under POST
C22_Witness ==
    /\ unit.stage = "handled"
    /\ unit.raw = "post /submit HTTP/1.1 x"
    /\ unit.request.method = "post"
    /\ unit.request.path = JSStr("/submit")
    /\ unit.result.handler = "submit"

\* C23: whatever buffer a data event delivers, the empty one and a request
\* line without a path among them, parseRequest returns a request whose method
\* is the first token of the buffer, handleRequest does not fail on it and,
\* no registered handler throwing, one response is written for it, which is
\* the default 404 when the request line has no path.
C23_DecodeAndDispatchTotal ==
    unit.stage = "handled" =>
        /\ unit.request.method = unit.method
        /\ ~unit.result.threw
        /\ unit.result.raw # ""
        /\ unit.path.type = "undefined" => unit.result.response = NotFound

=============================================================================
